---- MODULE Spec2Model ----
(***************************************************************************)
(* Chapter07/rank.py: fractional (tied-average) ranking by generators.     *)
(*                                                                         *)
(* rank_data, rerank, ranker and yield_sequence are Python generators.     *)
(* The variable gen holds the state of the generator pipeline of one call  *)
(* of rank_data; every action is one internal step of that pipeline, and   *)
(* gen.out is what the consumer of rank_data has received so far.          *)
(*                                                                         *)
(* A rank value r is a float with r = h/2 for an integer h (the code       *)
(* divides an integer by 2); the model stores the integer h = 2r.          *)
(*                                                                         *)
(* The code raises StopIteration inside generator bodies (next() on an     *)
(* exhausted iterator).  What happens then depends on the interpreter:     *)
(* from Python 3.7 on (PEP 479) it becomes RuntimeError, before that the   *)
(* generator just ends.  pep479 is the interpreter's choice.               *)
(***************************************************************************)
EXTENDS Integers, Sequences, FiniteSets, TLC

\* Bounds of the model.
MaxLen == 4        \* longest collection ranked under Spec
ChainLen == 3      \* longest collection ranked under ChainSpec
MaxPasses == 2     \* chained passes under ChainSpec

VARIABLES
    pep479,   \* TRUE: StopIteration leaving a generator body is RuntimeError
    args,     \* what the caller passed: the raw collection first ranked
              \* (items), this call's collection and its kind, the keys so far
    gen       \* the generator pipeline of the rank_data call under way

vars == <<pep479, args, gen>>

----------------------------------------------------------------------------
\* Data

\* A raw item: a pair, as in the doctest of rank_data.
tuple(x, y) == [cls |-> "tuple", val |-> <<x, y>>]

\* The raw items ranked: four pairs, two values in each place.  Under the
\* default key the four are distinct, under x[0] and x[1] they tie in twos,
\* so every pattern of ties among up to four records occurs.
Vals == {1, 2}

RawItems == {tuple(x, y) : x \in Vals, y \in Vals}

Rank_Data(rank_seq, raw) == [cls |-> "Rank_Data", rank_seq |-> rank_seq, raw |-> raw]

\* The key functions callers pass: the default (the item itself), x[0], x[1].
Keys == {"identity", "x0", "x1"}

\* key(raw), as a tuple of integers (a number n stands as <<n>>).
KeyVal(key, raw) ==
    CASE key = "identity" -> raw.val
      [] key = "x0" -> <<raw.val[1]>>
      [] key = "x1" -> <<raw.val[2]>>

\* Python's < on key values: numbers, and tuples lexicographically.
RECURSIVE Lt(_, _)
Lt(a, b) ==
    IF a = <<>> THEN b # <<>>
    ELSE IF b = <<>> THEN FALSE
    ELSE IF Head(a) # Head(b) THEN Head(a) < Head(b)
    ELSE Lt(Tail(a), Tail(b))

\* sorted(rank_data_iter, key=lambda obj: key(obj.raw)): stable, ascending.
RECURSIVE InsertBeforeEqual(_, _, _)
InsertBeforeEqual(s, x, key) ==
    IF s = <<>> THEN <<x>>
    ELSE IF ~Lt(KeyVal(key, Head(s).raw), KeyVal(key, x.raw)) THEN <<x>> \o s
    ELSE <<Head(s)>> \o InsertBeforeEqual(Tail(s), x, key)

RECURSIVE Insert(_, _, _)
Insert(s, x, key) ==
    IF s = <<>> THEN <<x>>
    ELSE IF Lt(KeyVal(key, x.raw), KeyVal(key, Head(s).raw)) THEN <<x>> \o s
    ELSE <<Head(s)>> \o Insert(Tail(s), x, key)

RECURSIVE sorted(_, _)
sorted(s, key) ==
    IF s = <<>> THEN <<>>
    ELSE Insert(sorted(SubSeq(s, 1, Len(s) - 1), key), s[Len(s)], key)

\* list(seq_or_iter): next() until the iterator is exhausted.
listDropFirst(it) == IF it = <<>> THEN <<>> ELSE Tail(it)

RECURSIVE list(_)
list(it) == IF it = <<>> THEN <<>> ELSE <<Head(it)>> \o list(Tail(it))

\* (base+1+base+dups)/2, in halves.
AvgRank(base, dups) == base + 1 + base + dups

\* Rank_Data(rd.rank_seq + (r,), rd.raw)
new_ranks_overwrite(r, rd) == Rank_Data(<<r>>, rd.raw)

new_ranks_prepend(r, rd) == Rank_Data(<<r>> \o rd.rank_seq, rd.raw)

new_ranks(r, rd) == Rank_Data(rd.rank_seq \o <<r>>, rd.raw)

----------------------------------------------------------------------------
\* The generator pipeline

NoError == "none"

\* rank_data(seq_or_iter, key) called, its generator not yet started.
NewCall(kind, seq, key) ==
    [pc |-> "rank_data", kind |-> kind, seq_or_iter |-> seq, key |-> key,
     data |-> <<>>, sorted_iter |-> <<>>, base |-> 0, same_rank_seq |-> <<>>,
     value |-> <<>>, cont |-> "none", rank |-> 0, same_rank_iter |-> <<>>,
     pairs |-> <<>>, out |-> <<>>, err |-> NoError]

\* An exception leaves every generator of the pipeline.
Raise(g, e) == [g EXCEPT !.pc = "error", !.err = e]

\* StopIteration raised in a generator body that does not catch it.
StopIterationInBody(g, after) ==
    IF pep479 THEN Raise(g, "RuntimeError") ELSE after

\* rank_data on an Iterator: materialize and recurse.
materialize(g) ==
    [g EXCEPT !.seq_or_iter = list(g.seq_or_iter), !.kind = "Sequence"]

\* rank_data on a Sequence: data is the sequence, or its items wrapped.
normalize(g) ==
    IF g.seq_or_iter = <<>> THEN Raise(g, "IndexError")
    ELSE IF g.seq_or_iter[1].cls = "Rank_Data"
         THEN [g EXCEPT !.pc = "rerank", !.data = g.seq_or_iter]
         ELSE [g EXCEPT !.pc = "rerank",
                        !.data = [i \in 1..Len(g.seq_or_iter) |->
                                    Rank_Data(<<>>, g.seq_or_iter[i])]]

\* rerank: sort, take the head, start ranker(sorted_iter, 0, [head], key).
rerank(g) ==
    LET s == sorted(g.data, g.key) IN
    IF s = <<>>
    THEN StopIterationInBody(g, [g EXCEPT !.pc = "done"])
    ELSE [g EXCEPT !.pc = "ranker", !.sorted_iter = Tail(s),
                   !.base = 0, !.same_rank_seq = <<Head(s)>>]

\* One entry to ranker(sorted_iter, base, same_rank_seq, key).
rankerBasePlusOne(g) ==
    IF g.sorted_iter = <<>>
    THEN [g EXCEPT !.pc = "yield_sequence", !.cont = "return",
                   !.rank = AvgRank(g.base, Len(g.same_rank_seq)),
                   !.same_rank_iter = g.same_rank_seq]
    ELSE LET value == Head(g.sorted_iter) IN
         IF KeyVal(g.key, value.raw) = KeyVal(g.key, g.same_rank_seq[1].raw)
         THEN [g EXCEPT !.sorted_iter = Tail(g.sorted_iter),
                        !.base = g.base + 1,
                        !.same_rank_seq = Append(g.same_rank_seq, value)]
         ELSE [g EXCEPT !.pc = "yield_sequence", !.cont = "ranker",
                        !.sorted_iter = Tail(g.sorted_iter),
                        !.value = <<value>>,
                        !.rank = AvgRank(g.base, Len(g.same_rank_seq)),
                        !.same_rank_iter = g.same_rank_seq]

ranker(g) ==
    IF g.sorted_iter = <<>>
    THEN \* except StopIteration: the last batch
         [g EXCEPT !.pc = "yield_sequence", !.cont = "return",
                   !.rank = AvgRank(g.base, Len(g.same_rank_seq)),
                   !.same_rank_iter = g.same_rank_seq]
    ELSE LET value == Head(g.sorted_iter) IN
         IF KeyVal(g.key, value.raw) = KeyVal(g.key, g.same_rank_seq[1].raw)
         THEN \* ranker(sorted_iter, base, same_rank_seq + [value], key)
              [g EXCEPT !.sorted_iter = Tail(g.sorted_iter),
                        !.same_rank_seq = Append(g.same_rank_seq, value)]
         ELSE \* yield_sequence(...), then ranker(sorted_iter, base+dups, [value], key)
              [g EXCEPT !.pc = "yield_sequence", !.cont = "ranker",
                        !.sorted_iter = Tail(g.sorted_iter),
                        !.value = <<value>>,
                        !.rank = AvgRank(g.base, Len(g.same_rank_seq)),
                        !.same_rank_iter = g.same_rank_seq]

\* What follows yield_sequence in ranker once yield_sequence has returned.
afterYield(g) ==
    IF g.cont = "ranker"
    THEN [g EXCEPT !.pc = "ranker", !.cont = "none", !.value = <<>>,
                   !.base = g.base + Len(g.same_rank_seq),
                   !.same_rank_seq = g.value]
    ELSE [g EXCEPT !.pc = "done", !.cont = "none"]

\* One entry to yield_sequence(rank, same_rank_iter); the pair it yields
\* reaches rank_data's loop, which yields the new Rank_Data.
yield_sequence(g) ==
    IF g.same_rank_iter = <<>>
    THEN StopIterationInBody(g, afterYield(g))
    ELSE LET head == Head(g.same_rank_iter) IN
         [g EXCEPT !.same_rank_iter = Tail(g.same_rank_iter),
                   !.pairs = Append(g.pairs, <<g.rank, head>>),
                   !.out = Append(g.out, new_ranks(g.rank, head))]

----------------------------------------------------------------------------
\* Actions

Kinds == {"Sequence", "Iterator"}

RECURSIVE SeqsUpTo(_, _)
SeqsUpTo(S, n) ==
    IF n = 0 THEN {<<>>}
    ELSE LET shorter == SeqsUpTo(S, n - 1) IN
         shorter \cup {Append(s, x) : s \in {t \in shorter : Len(t) = n - 1}, x \in S}

InitWith(n) ==
    /\ pep479 \in BOOLEAN
    /\ \E items \in SeqsUpTo(RawItems, n), kind \in Kinds, key \in Keys :
         /\ args = [items |-> items, input |-> items, kind |-> kind, keys |-> <<key>>]
         /\ gen = NewCall(kind, items, key)

Init == InitWith(MaxLen)

InitChain == InitWith(ChainLen)

Materialize ==
    /\ gen.pc = "rank_data" /\ gen.kind = "Iterator"
    /\ gen' = materialize(gen)
    /\ UNCHANGED <<pep479, args>>

Normalize ==
    /\ gen.pc = "rank_data" /\ gen.kind = "Sequence"
    /\ gen' = normalize(gen)
    /\ UNCHANGED <<pep479, args>>

Rerank ==
    /\ gen.pc = "rerank"
    /\ gen' = rerank(gen)
    /\ UNCHANGED <<pep479, args>>

RankerExhausted ==
    /\ gen.pc = "ranker" /\ gen.sorted_iter = <<>>
    /\ gen' = ranker(gen)
    /\ UNCHANGED <<pep479, args>>

RankerExtend ==
    /\ gen.pc = "ranker" /\ gen.sorted_iter # <<>>
    /\ KeyVal(gen.key, Head(gen.sorted_iter).raw) = KeyVal(gen.key, gen.same_rank_seq[1].raw)
    /\ gen' = ranker(gen)
    /\ UNCHANGED <<pep479, args>>

RankerFlush ==
    /\ gen.pc = "ranker" /\ gen.sorted_iter # <<>>
    /\ KeyVal(gen.key, Head(gen.sorted_iter).raw) # KeyVal(gen.key, gen.same_rank_seq[1].raw)
    /\ gen' = ranker(gen)
    /\ UNCHANGED <<pep479, args>>

YieldMember ==
    /\ gen.pc = "yield_sequence" /\ gen.same_rank_iter # <<>>
    /\ gen' = yield_sequence(gen)
    /\ UNCHANGED <<pep479, args>>

YieldStop ==
    /\ gen.pc = "yield_sequence" /\ gen.same_rank_iter = <<>>
    /\ gen' = yield_sequence(gen)
    /\ UNCHANGED <<pep479, args>>

\* The caller ranks the finished pass's output again by another key.
NextPass ==
    /\ gen.pc = "done" /\ Len(args.keys) < MaxPasses
    /\ \E kind \in Kinds, key \in Keys :
         /\ gen' = NewCall(kind, gen.out, key)
         /\ args' = [args EXCEPT !.input = gen.out, !.kind = kind,
                                  !.keys = Append(@, key)]
    /\ UNCHANGED pep479

Next ==
    \/ Materialize
    \/ Normalize
    \/ Rerank
    \/ RankerExhausted
    \/ RankerExtend
    \/ RankerFlush
    \/ YieldMember
    \/ YieldStop

NextChain == Next \/ NextPass

Spec == Init /\ [][Next]_vars

ChainSpec == InitChain /\ [][NextChain]_vars

----------------------------------------------------------------------------
\* The pipeline run to its end: what fully consuming a call produces.

Ended(g) == g.pc \in {"done", "error"}

Step(g) ==
    CASE g.pc = "rank_data" /\ g.kind = "Iterator" -> materialize(g)
      [] g.pc = "rank_data" /\ g.kind = "Sequence" -> normalize(g)
      [] g.pc = "rerank" -> rerank(g)
      [] g.pc = "ranker" -> ranker(g)
      [] g.pc = "yield_sequence" -> yield_sequence(g)

RECURSIVE Run(_)
Run(g) == IF Ended(g) THEN g ELSE Run(Step(g))

\* rank_data(... rank_data(rank_data(items, keys[1]), keys[2]) ..., keys[n])
RECURSIVE RunChain(_, _)
RunChain(items, keys) ==
    IF Len(keys) = 1 THEN Run(NewCall("Sequence", items, keys[1]))
    ELSE LET inner == RunChain(items, SubSeq(keys, 1, Len(keys) - 1)) IN
         IF inner.pc = "done"
         THEN Run(NewCall("Iterator", inner.out, keys[Len(keys)]))
         ELSE inner

----------------------------------------------------------------------------
\* Vocabulary of the properties

PassNo == Len(args.keys)

Last(s) == s[Len(s)]

Reverse(s) == [i \in 1..Len(s) |-> s[Len(s) + 1 - i]]

IsPrefix(s, t) == Len(s) <= Len(t) /\ s = SubSeq(t, 1, Len(s))

\* key(d.raw) of a record of the pass under way
K(d) == KeyVal(gen.key, d.raw)

\* Number of records of data whose key is below, or equal to, that of d.
Below(data, d) == Cardinality({j \in 1..Len(data) : Lt(K(data[j]), K(d))})

Tied(data, d) == Cardinality({j \in 1..Len(data) : K(data[j]) = K(d)})

\* Twice p + (k+1)/2 for the run of d: p records before it, k in it.
TieRank(data, d) == 2 * Below(data, d) + Tied(data, d) + 1

\* 1-based position of data[i] in the stable ascending order of data.
StablePos(data, i) ==
    Below(data, data[i])
    + Cardinality({j \in 1..i : K(data[j]) = K(data[i])})

Count(s, x) == Cardinality({j \in 1..Len(s) : s[j] = x})

Raws(s) == [j \in 1..Len(s) |-> s[j].raw]

RECURSIVE SumRanks(_)
SumRanks(pairs) ==
    IF pairs = <<>> THEN 0 ELSE Head(pairs)[1] + SumRanks(Tail(pairs))

AllKeysDistinct(data) ==
    \A i, j \in 1..Len(data) : i # j => K(data[i]) # K(data[j])

----------------------------------------------------------------------------
\* C1: when a pass over a non-empty collection has ended, every record of a
\* run of k equal keys at ordinal positions p+1..p+k has been given the
\* rank p + (k+1)/2 (with distinct keys: its 1-based position).
C1_EveryRunGetsItsAverageRank ==
    (Ended(gen) /\ gen.data # <<>>) =>
        /\ Len(gen.out) = Len(gen.data)
        /\ \A j \in 1..Len(gen.out) :
              Last(gen.out[j].rank_seq) = TieRank(gen.data, gen.out[j])
        /\ AllKeysDistinct(gen.data) =>
              \A j \in 1..Len(gen.out) : Last(gen.out[j].rank_seq) = 2 * j

\* C2: fully consuming rank_data on n >= 1 items gives n records whose raw
\* items are the input's raw items, each as often as in the input.
C2_OutputIsAPermutationOfInput ==
    (Ended(gen) /\ args.input # <<>>) =>
        /\ Len(gen.out) = Len(args.input)
        /\ \A i \in 1..Len(gen.data) :
              Count(Raws(gen.out), gen.data[i].raw)
                = Count(Raws(gen.data), gen.data[i].raw)

\* C3: the ranks emitted by one pass over n >= 1 items sum to n(n+1)/2.
C3_RankSumIsTriangular ==
    (Ended(gen) /\ args.input # <<>>) =>
        SumRanks(gen.pairs) = Len(args.input) * (Len(args.input) + 1)

\* C4: every output record of a pass has the raw of an input record and
\* that record's rank_seq with one value appended; after m passes every
\* rank_seq has length m.
C4_PassAppendsOneRank ==
    \A j \in 1..Len(gen.out) :
        /\ Len(gen.out[j].rank_seq) = PassNo
        /\ \E i \in 1..Len(args.input) :
              LET x == args.input[i] IN
              IF x.cls = "Rank_Data"
              THEN /\ gen.out[j].raw = x.raw
                   /\ SubSeq(gen.out[j].rank_seq, 1, PassNo - 1) = x.rank_seq
              ELSE gen.out[j].raw = x

C4_SecondPassDone ==
    /\ PassNo = 2 /\ gen.pc = "done" /\ Len(gen.out) = 3
    /\ gen.out[1].rank_seq # gen.out[2].rank_seq
    /\ gen.out[1].rank_seq[1] # gen.out[1].rank_seq[2]

\* C5: ranking an empty collection signals EmptyInputError and emits nothing.
C5_EmptyInputError ==
    (Ended(gen) /\ args.input = <<>>) =>
        gen.err = "EmptyInputError" /\ gen.out = <<>>

\* C6: the pairs are emitted in non-decreasing key order, records of equal
\* key in the order they had in the input.
C6_EmittedInStableKeyOrder ==
    /\ \A a, b \in 1..Len(gen.pairs) :
          a < b => ~Lt(K(gen.pairs[b][2]), K(gen.pairs[a][2]))
    /\ \A m \in 1..Len(gen.pairs) :
          \E i \in 1..Len(gen.data) :
              StablePos(gen.data, i) = m /\ gen.pairs[m][2] = gen.data[i]

C6_TiedRecordsEmitted ==
    /\ Len(gen.pairs) = 3
    /\ K(gen.pairs[1][2]) = K(gen.pairs[2][2])
    /\ gen.pairs[1][2] # gen.pairs[2][2]
    /\ Lt(K(gen.pairs[2][2]), K(gen.pairs[3][2]))

\* C7: rank_data on a one-shot iterator over L yields what rank_data on L
\* yields, record by record, and ends the same way.
C7_IteratorAsList ==
    args.kind = "Iterator" =>
        LET onList == Run(NewCall("Sequence", args.input, gen.key)) IN
        /\ IsPrefix(gen.out, onList.out)
        /\ Ended(gen) => (gen.out = onList.out /\ gen.err = onList.err)

C7_IteratorRanked ==
    /\ args.kind = "Iterator" /\ gen.pc = "done" /\ Len(gen.out) = 3
    /\ Raws(gen.out) # args.input

\* C8: the rank a later pass appends to an item is the rank a single pass
\* by that key over the raw items gives it; two passes by k1 then k2 and by
\* k2 then k1 give each item the same two ranks, swapped.
C8_SecondPassIndependent ==
    PassNo >= 2 =>
        LET single == Run(NewCall("Sequence", args.items, Last(args.keys)))
            swapped == RunChain(args.items, Reverse(args.keys))
        IN  \A j \in 1..Len(gen.out) :
              /\ \E i \in 1..Len(single.out) :
                    single.out[i].raw = gen.out[j].raw
              /\ \A i \in 1..Len(single.out) :
                    single.out[i].raw = gen.out[j].raw =>
                        single.out[i].rank_seq = <<Last(gen.out[j].rank_seq)>>
              /\ PassNo = 2 =>
                    /\ \E i \in 1..Len(swapped.out) :
                          swapped.out[i].raw = gen.out[j].raw
                    /\ \A i \in 1..Len(swapped.out) :
                          swapped.out[i].raw = gen.out[j].raw =>
                              swapped.out[i].rank_seq = Reverse(gen.out[j].rank_seq)

C8_TwoKeysRanked ==
    /\ PassNo = 2 /\ gen.pc = "done" /\ Len(gen.out) = 3
    /\ args.keys[1] # args.keys[2]
    /\ gen.out[1].rank_seq[1] # gen.out[1].rank_seq[2]
    /\ gen.out[2].rank_seq[2] = gen.out[3].rank_seq[2]
    /\ gen.out[2].rank_seq[1] # gen.out[3].rank_seq[1]

\* C9: yield_sequence emits one (rank, member) pair per member of the run,
\* in order, and at the end of the run ends without an error.
C9_YieldSequenceEndsNormally ==
    [][gen.pc = "yield_sequence" =>
         /\ gen'.err = NoError
         /\ gen'.pairs = IF gen.same_rank_iter = <<>> THEN gen.pairs
                         ELSE Append(gen.pairs, <<gen.rank, Head(gen.same_rank_iter)>>)]_vars

\* C10: at every entry to ranker, base is the number of pairs emitted and
\* base + |same_rank_seq| the number of records taken from the sorted
\* sequence; no member of the open run has been emitted.
C10_BaseCountsEmitted ==
    gen.pc = "ranker" =>
        /\ gen.base = Len(gen.pairs)
        /\ gen.base + Len(gen.same_rank_seq) = Len(gen.data) - Len(gen.sorted_iter)
        /\ Len(gen.out) = gen.base

C10_SecondRunExtended ==
    gen.pc = "ranker" /\ gen.base > 0 /\ Len(gen.same_rank_seq) = 2

----------------------------------------------------------------------------
\* C1, C2 and C3 on an interpreter without PEP 479 (Python 3.6 and older),
\* where StopIteration in a generator body just ends the generator.
C1_BeforePep479 == ~pep479 => C1_EveryRunGetsItsAverageRank

C2_BeforePep479 == ~pep479 => C2_OutputIsAPermutationOfInput

C3_BeforePep479 == ~pep479 => C3_RankSumIsTriangular

====
